---- MODULE Spec2Model ----
(***************************************************************************)
(* Model of the Hunyuan3D Blender add-on (src/main.py): the operator's     *)
(* invoke / modal handlers on the host thread, the generate_model worker   *)
(* thread, the import_handler timer callback and the panel's button gate.  *)
(*                                                                         *)
(* Blender creates one operator instance per invocation, so every self.*   *)
(* attribute is a function of the job (the invocation number); the scene   *)
(* properties (props.is_processing, props.status_message), the timer       *)
(* queue, the modal handler list and the scene objects are shared.         *)
(*                                                                         *)
(* invoke, modal and import_handler run on the host thread and are atomic  *)
(* with respect to each other; the worker's writes to shared state are     *)
(* separate steps that interleave with them.                               *)
(***************************************************************************)
EXTENDS Naturals, Sequences, FiniteSets

(* Number of operator invocations explored. *)
MaxJobs == 2

Jobs == 1..MaxJobs

(* ---------------------------------------------------------------------- *)
(* Inputs                                                                  *)
(* ---------------------------------------------------------------------- *)

None == "None"

(* Values of props.prompt. *)
Prompts == {"", "a red chair"}

(* Values of props.image_path: unset, an existing file, a missing file. *)
ImagePaths == {"", "/img/ok.png", "/img/missing.png", "//tex.png"}

(* Directory of the .blend file, os.path.dirname(bpy.data.filepath). *)
blend_file_dir == "/proj"

(* os.path.join(blend_file_dir, name) for the relative names in use. *)
join(dir, name) == IF dir = "/proj" /\ name = "tex.png" THEN "/proj/tex.png" ELSE name

(* path.startswith('//') and path[2:] for the paths in use. *)
startswith_slashes(path) == path = "//tex.png"

strip_slashes(path) == IF path = "//tex.png" THEN "tex.png" ELSE path

(* Mesh objects of the scene that the user may have selected. *)
Meshes == {"Cube"}

(* The property values and the selection an invocation can find. *)
Submissions ==
    [prompt : Prompts, image_path : ImagePaths, texture : BOOLEAN,
     selected : Meshes \cup {None}]

(* The submissions explored when several jobs interleave: every one with   *)
(* neither prompt nor image, a text prompt, and texturing a selected mesh  *)
(* from a text prompt.                                                     *)
InterleavedSubmissions ==
    { s \in Submissions :
        /\ s.image_path = ""
        /\ s.prompt # "" => s.texture = (s.selected # None) }

(* location, rotation_euler and scale of a scene object, and of a freshly  *)
(* imported asset.                                                         *)
transform(obj) == <<"transform", obj>>

asset_transform == <<"transform", "asset">>

(* os.path.exists on the model's file system. *)
exists(path) == path \in {"/img/ok.png", "/proj/tex.png"}

(* base64 of the glTF export of the selected object. *)
mesh_b64_str(obj) == <<"glb", obj>>

(* The server's answer to job j: on 200 the asset bytes, distinct per      *)
(* request; otherwise the error text.                                      *)
NoResponse == [status_code |-> 0, content |-> <<>>]

Responses(j) ==
    { [status_code |-> 200, content |-> <<"asset", j>>],
      [status_code |-> 500, content |-> <<"OOM">>] }

(* ---------------------------------------------------------------------- *)
(* State                                                                   *)
(* ---------------------------------------------------------------------- *)

VARIABLES
    is_processing,          \* props.is_processing
    status_message,         \* props.status_message
    prompt,                 \* self.prompt, per operator instance
    image_path,             \* self.image_path
    texture,                \* self.texture
    selected_mesh,          \* self.selected_mesh
    selected_mesh_base64,   \* self.selected_mesh_base64
    task_finished,          \* self.task_finished
    thread,                 \* where self.thread stands in generate_model
    response,               \* the worker's local `response`
    temp_file,              \* content of the worker's temp_file, <<>> if none
    payload,                \* the JSON body posted by the worker, {} if none
    posts,                  \* number of requests.post calls of the worker
    errors,                 \* number of self.report({'ERROR'}, ...) calls
    timers,                 \* jobs whose import_handler is registered
    modal_handlers,         \* jobs whose operator is a running modal handler
    imported,               \* per job, the assets its import_handler imported
    hidden,                 \* scene objects hidden from viewport and render
    resets,                 \* per job, times modal took its finished branch
    placed,                 \* per job, the transform of the object it imported
    objects,                \* the source mesh objects present in the scene
    abandoned               \* jobs cancelled while their request was in flight

vars == <<is_processing, status_message, prompt, image_path, texture,
          selected_mesh, selected_mesh_base64, task_finished, thread,
          response, temp_file, payload, posts, errors, timers,
          modal_handlers, imported, hidden, resets, placed, objects,
          abandoned>>

(* Variables only the operator instance's captured inputs live in. *)
captured == <<prompt, image_path, texture, selected_mesh>>

(* Variables only the worker writes. *)
worker_local == <<response, temp_file, payload, posts, errors>>

(* Variables only host-side callbacks write. *)
host_only == <<status_message, modal_handlers, imported, hidden, resets,
               placed, objects, abandoned>>

Init ==
    /\ is_processing = FALSE
    /\ status_message = ""
    /\ prompt = [j \in Jobs |-> ""]
    /\ image_path = [j \in Jobs |-> ""]
    /\ texture = [j \in Jobs |-> FALSE]
    /\ selected_mesh = [j \in Jobs |-> None]
    /\ selected_mesh_base64 = [j \in Jobs |-> <<>>]
    /\ task_finished = [j \in Jobs |-> FALSE]
    /\ thread = [j \in Jobs |-> "none"]
    /\ response = [j \in Jobs |-> NoResponse]
    /\ temp_file = [j \in Jobs |-> <<>>]
    /\ payload = [j \in Jobs |-> {}]
    /\ posts = [j \in Jobs |-> 0]
    /\ errors = [j \in Jobs |-> 0]
    /\ timers = {}
    /\ modal_handlers = {}
    /\ imported = [j \in Jobs |-> <<>>]
    /\ hidden = {}
    /\ resets = [j \in Jobs |-> 0]
    /\ placed = [j \in Jobs |-> <<>>]
    /\ objects = Meshes
    /\ abandoned = {}

(* ---------------------------------------------------------------------- *)
(* Hunyuan3DPanel.draw                                                     *)
(* ---------------------------------------------------------------------- *)

(* row.enabled: the Generate button is clickable. *)
row_enabled == ~is_processing

(* ---------------------------------------------------------------------- *)
(* Hunyuan3DOperator.invoke                                                *)
(* ---------------------------------------------------------------------- *)

(* Lines 146-147 with the mesh type inverted. *)
StatusMessage_inverted(mesh, tex, text) ==
    IF mesh # None /\ tex
    THEN "Texturing Selected Mesh..."
    ELSE IF ~tex
         THEN IF text # "" THEN "Generating Textured Mesh with Text Prompt..."
                           ELSE "Generating Textured Mesh with Image..."
         ELSE IF text # "" THEN "Generating White Mesh with Text Prompt..."
                           ELSE "Generating White Mesh with Image..."

(* The status text chosen at lines 142-149. *)
StatusMessage(mesh, tex, text) ==
    IF mesh # None /\ tex
    THEN "Texturing Selected Mesh..."
    ELSE IF tex
         THEN IF text # "" THEN "Generating Textured Mesh with Text Prompt..."
                           ELSE "Generating Textured Mesh with Image..."
         ELSE IF text # "" THEN "Generating White Mesh with Text Prompt..."
                           ELSE "Generating White Mesh with Image..."

(* The absolute path of lines 138-140. *)
ResolvedPath(path) ==
    IF startswith_slashes(path)
    THEN join(blend_file_dir, strip_slashes(path))
    ELSE path

(* Lines 112-114 also returning when the image file does not exist. *)
NothingToGenerate_or_missing(s) ==
    \/ s.prompt = "" /\ s.image_path = ""
    \/ s.image_path # "" /\ ~exists(ResolvedPath(s.image_path))

(* Lines 112-114 comparing against None instead of "": never true. *)
NothingToGenerate_none(s) == s.prompt = None /\ s.image_path = None

(* The early return of lines 112-114. *)
NothingToGenerate(s) == s.prompt = "" /\ s.image_path = ""

(* The operator instances are numbered in the order of their invocation. *)
NextInstance(j) ==
    /\ thread[j] = "none"
    /\ \A k \in Jobs : k < j => thread[k] # "none"

(* invoke on a fresh operator instance j, finding the properties and the   *)
(* selection s. A hidden object is not among context.selected_objects.     *)
invoke(j, s) ==
    /\ NextInstance(j)
    /\ s.selected \in objects \cup {None}
    /\ s.selected \notin hidden
    /\ prompt' = [prompt EXCEPT ![j] = s.prompt]
    /\ texture' = [texture EXCEPT ![j] = s.texture]
    /\ IF NothingToGenerate(s)
       THEN /\ image_path' = [image_path EXCEPT ![j] = s.image_path]
            /\ thread' = [thread EXCEPT ![j] = "rejected"]
            /\ UNCHANGED <<is_processing, status_message, selected_mesh,
                           selected_mesh_base64, modal_handlers>>
       ELSE /\ selected_mesh' = [selected_mesh EXCEPT ![j] = s.selected]
            /\ selected_mesh_base64' =
                   [selected_mesh_base64 EXCEPT
                      ![j] = IF s.selected # None
                             THEN mesh_b64_str(s.selected) ELSE <<>>]
            /\ is_processing' = TRUE
            /\ image_path' = [image_path EXCEPT ![j] = ResolvedPath(s.image_path)]
            /\ status_message' = StatusMessage(s.selected, s.texture, s.prompt)
            /\ thread' = [thread EXCEPT ![j] = "start"]
            /\ modal_handlers' = modal_handlers \cup {j}
    /\ UNCHANGED <<task_finished, timers, imported, hidden, resets, placed,
                   objects, abandoned>>
    /\ UNCHANGED worker_local

(* A click on the panel's Generate button: possible while row.enabled. *)
click(j, s) ==
    /\ row_enabled
    /\ invoke(j, s)

(* ---------------------------------------------------------------------- *)
(* Hunyuan3DOperator.generate_model (the worker thread)                    *)
(* ---------------------------------------------------------------------- *)

params == {"octree_resolution", "num_inference_steps", "guidance_scale", "texture"}

(* The mesh-and-texture branch of line 163. *)
MeshTextureBranch(j) == selected_mesh_base64[j] # <<>> /\ texture[j]

(* Line 195 without the existence test: the image branch never raises. *)
ImageMissing_unchecked(j) == FALSE

(* Line 195: the image branch of a plain generation finds no file. *)
ImageMissing(j) ==
    /\ ~MeshTextureBranch(j)
    /\ image_path[j] # ""
    /\ ~exists(image_path[j])

(* Lines 163-223 with the image test ahead of the mesh-and-texture test. *)
RequestFields_image_first(j) ==
    IF image_path[j] # "" /\ exists(image_path[j])
    THEN {"image"} \cup params
    ELSE IF MeshTextureBranch(j)
         THEN {"mesh", "text"} \cup params
         ELSE {"text"} \cup params

(* The keys of the JSON body, lines 163-223. *)
RequestFields(j) ==
    IF MeshTextureBranch(j)
    THEN IF image_path[j] # "" /\ exists(image_path[j])
         THEN {"mesh", "image"} \cup params
         ELSE {"mesh", "text"} \cup params
    ELSE IF image_path[j] # ""
         THEN {"image"} \cup params
         ELSE {"text"} \cup params

(* The except clause, lines 254-255, entered from any raise in the try.   *)
except(j) ==
    /\ errors' = [errors EXCEPT ![j] = @ + 1]
    /\ thread' = [thread EXCEPT ![j] = "l258"]

(* Lines 159-223 up to the call of requests.post: the request is built and *)
(* sent, or the missing image raises (lines 195-197, then 254-255).        *)
generate_model_post(j) ==
    /\ thread[j] = "start"
    /\ IF ImageMissing(j)
       THEN /\ errors' = [errors EXCEPT ![j] = @ + 2]
            /\ thread' = [thread EXCEPT ![j] = "l258"]
            /\ UNCHANGED <<payload, posts>>
       ELSE /\ payload' = [payload EXCEPT ![j] = RequestFields(j)]
            /\ posts' = [posts EXCEPT ![j] = @ + 1]
            /\ thread' = [thread EXCEPT ![j] = "post"]
            /\ UNCHANGED errors
    /\ UNCHANGED <<is_processing, task_finished, selected_mesh_base64, timers,
                   response, temp_file>>
    /\ UNCHANGED captured
    /\ UNCHANGED host_only

(* requests.post returns a response (line 224 follows). *)
generate_model_response(j) ==
    /\ thread[j] = "post"
    /\ \E r \in Responses(j) : response' = [response EXCEPT ![j] = r]
    /\ thread' = [thread EXCEPT ![j] = "l225"]
    /\ UNCHANGED <<is_processing, task_finished, selected_mesh_base64, timers,
                   temp_file, payload, posts, errors>>
    /\ UNCHANGED captured
    /\ UNCHANGED host_only

(* requests.post raises a transport error, caught at lines 254-255. *)
generate_model_transport_error(j) ==
    /\ thread[j] = "post"
    /\ except(j)
    /\ UNCHANGED <<is_processing, task_finished, selected_mesh_base64, timers,
                   response, temp_file, payload, posts>>
    /\ UNCHANGED captured
    /\ UNCHANGED host_only

(* Line 225. *)
generate_model_l225(j) ==
    /\ thread[j] = "l225"
    /\ task_finished' = [task_finished EXCEPT ![j] = TRUE]
    /\ thread' = [thread EXCEPT ![j] = "l227"]
    /\ UNCHANGED <<is_processing, selected_mesh_base64, timers>>
    /\ UNCHANGED captured
    /\ UNCHANGED worker_local
    /\ UNCHANGED host_only

(* Lines 226-227. *)
generate_model_l227(j) ==
    /\ thread[j] = "l227"
    /\ is_processing' = FALSE
    /\ thread' = [thread EXCEPT ![j] = "l229"]
    /\ UNCHANGED <<task_finished, selected_mesh_base64, timers>>
    /\ UNCHANGED captured
    /\ UNCHANGED worker_local
    /\ UNCHANGED host_only

(* Lines 229-231 retrying the request instead of returning. *)
generate_model_failed_retries(j) ==
    /\ thread[j] = "l229"
    /\ response[j].status_code # 200
    /\ posts[j] < 3
    /\ errors' = [errors EXCEPT ![j] = @ + 1]
    /\ thread' = [thread EXCEPT ![j] = "start"]
    /\ UNCHANGED <<is_processing, task_finished, selected_mesh_base64, timers,
                   response, temp_file, payload, posts>>
    /\ UNCHANGED captured
    /\ UNCHANGED host_only

(* Lines 229-231 without the return: the error is reported and the worker  *)
(* goes on to write the body and register the handler.                     *)
generate_model_failed_no_return(j) ==
    /\ thread[j] = "l229"
    /\ response[j].status_code # 200
    /\ errors' = [errors EXCEPT ![j] = @ + 1]
    /\ temp_file' = [temp_file EXCEPT ![j] = response[j].content]
    /\ timers' = timers \cup {j}
    /\ thread' = [thread EXCEPT ![j] = "l258"]
    /\ UNCHANGED <<is_processing, task_finished, selected_mesh_base64,
                   response, payload, posts>>
    /\ UNCHANGED captured
    /\ UNCHANGED host_only

(* Lines 229-231: a non-200 answer is reported and the worker returns      *)
(* through the finally clause.                                             *)
generate_model_failed(j) ==
    /\ thread[j] = "l229"
    /\ response[j].status_code # 200
    /\ errors' = [errors EXCEPT ![j] = @ + 1]
    /\ thread' = [thread EXCEPT ![j] = "l258"]
    /\ UNCHANGED <<is_processing, task_finished, selected_mesh_base64, timers,
                   response, temp_file, payload, posts>>
    /\ UNCHANGED captured
    /\ UNCHANGED host_only

(* Lines 229-252 on a 200 answer: the body is written to a fresh temporary *)
(* file and import_handler is registered as a timer.                       *)
generate_model_register(j) ==
    /\ thread[j] = "l229"
    /\ response[j].status_code = 200
    /\ temp_file' = [temp_file EXCEPT ![j] = response[j].content]
    /\ timers' = timers \cup {j}
    /\ thread' = [thread EXCEPT ![j] = "l258"]
    /\ UNCHANGED <<is_processing, task_finished, selected_mesh_base64,
                   response, payload, posts, errors>>
    /\ UNCHANGED captured
    /\ UNCHANGED host_only

(* Lines 233-235 raise (the temporary file cannot be written): caught at   *)
(* lines 254-255, nothing is registered.                                   *)
generate_model_write_error(j) ==
    /\ thread[j] = "l229"
    /\ response[j].status_code = 200
    /\ except(j)
    /\ UNCHANGED <<is_processing, task_finished, selected_mesh_base64, timers,
                   response, temp_file, payload, posts>>
    /\ UNCHANGED captured
    /\ UNCHANGED host_only

(* Line 258, in the finally clause. *)
generate_model_l258(j) ==
    /\ thread[j] = "l258"
    /\ task_finished' = [task_finished EXCEPT ![j] = TRUE]
    /\ thread' = [thread EXCEPT ![j] = "l260"]
    /\ UNCHANGED <<is_processing, selected_mesh_base64, timers>>
    /\ UNCHANGED captured
    /\ UNCHANGED worker_local
    /\ UNCHANGED host_only

(* The finally clause without lines 259-260: the busy flag is left alone. *)
generate_model_l260_skipped(j) ==
    /\ thread[j] = "l260"
    /\ thread' = [thread EXCEPT ![j] = "l261"]
    /\ UNCHANGED <<is_processing, task_finished, selected_mesh_base64, timers>>
    /\ UNCHANGED captured
    /\ UNCHANGED worker_local
    /\ UNCHANGED host_only

(* Lines 259-260. *)
generate_model_l260(j) ==
    /\ thread[j] = "l260"
    /\ is_processing' = FALSE
    /\ thread' = [thread EXCEPT ![j] = "l261"]
    /\ UNCHANGED <<task_finished, selected_mesh_base64, timers>>
    /\ UNCHANGED captured
    /\ UNCHANGED worker_local
    /\ UNCHANGED host_only

(* Line 261, after which the thread returns. *)
generate_model_l261(j) ==
    /\ thread[j] = "l261"
    /\ selected_mesh_base64' = [selected_mesh_base64 EXCEPT ![j] = <<>>]
    /\ thread' = [thread EXCEPT ![j] = "done"]
    /\ UNCHANGED <<is_processing, task_finished, timers>>
    /\ UNCHANGED captured
    /\ UNCHANGED worker_local
    /\ UNCHANGED host_only

(* One step of the worker thread of job j. *)
generate_model(j) ==
    \/ generate_model_post(j)
    \/ generate_model_response(j)
    \/ generate_model_transport_error(j)
    \/ generate_model_l225(j)
    \/ generate_model_l227(j)
    \/ generate_model_failed(j)
    \/ generate_model_register(j)
    \/ generate_model_write_error(j)
    \/ generate_model_l258(j)
    \/ generate_model_l260(j)
    \/ generate_model_l261(j)

(* ---------------------------------------------------------------------- *)
(* Hunyuan3DOperator.modal and import_handler (the host thread)            *)
(* ---------------------------------------------------------------------- *)

Events == {"TIMER", "ESC", "RIGHTMOUSE"}

(* modal of the running modal operator j on an event: cancelled by a      *)
(* right click or escape, otherwise the finished branch of lines 93-97 or  *)
(* a pass-through that changes nothing.                                    *)
modal(j, event) ==
    /\ j \in modal_handlers
    /\ IF event \in {"RIGHTMOUSE", "ESC"}
       THEN /\ modal_handlers' = modal_handlers \ {j}
            /\ abandoned' = IF thread[j] \in {"start", "post"}
                            THEN abandoned \cup {j}
                            ELSE abandoned
            /\ UNCHANGED <<task_finished, is_processing, resets>>
       ELSE IF task_finished[j]
            THEN /\ task_finished' = [task_finished EXCEPT ![j] = FALSE]
                 /\ is_processing' = FALSE
                 /\ resets' = [resets EXCEPT ![j] = @ + 1]
                 /\ UNCHANGED <<modal_handlers, abandoned>>
            ELSE UNCHANGED <<task_finished, is_processing, resets,
                             modal_handlers, abandoned>>
    /\ UNCHANGED <<status_message, selected_mesh_base64, thread, timers,
                   imported, hidden, placed, objects>>
    /\ UNCHANGED captured
    /\ UNCHANGED worker_local

(* import_handler returning a delay instead of None (line 250): the timer *)
(* stays registered and the file is imported again.                        *)
import_handler_repeats(j) ==
    /\ j \in timers
    /\ Len(imported[j]) < 3
    /\ imported' = [imported EXCEPT ![j] = Append(@, temp_file[j])]
    /\ placed' = [placed EXCEPT
                     ![j] = IF selected_mesh[j] # None /\ texture[j]
                            THEN transform(selected_mesh[j])
                            ELSE asset_transform]
    /\ hidden' = IF selected_mesh[j] # None /\ texture[j]
                 THEN hidden \cup {selected_mesh[j]}
                 ELSE hidden
    /\ UNCHANGED <<objects, abandoned>>
    /\ UNCHANGED <<is_processing, status_message, selected_mesh_base64,
                   task_finished, thread, response, payload, posts, errors,
                   modal_handlers, resets, timers, temp_file>>
    /\ UNCHANGED captured

(* import_handler with line 242 testing the selection alone, not the       *)
(* texture flag.                                                           *)
import_handler_any_selected(j) ==
    /\ j \in timers
    /\ timers' = timers \ {j}
    /\ imported' = [imported EXCEPT ![j] = Append(@, temp_file[j])]
    /\ temp_file' = [temp_file EXCEPT ![j] = <<>>]
    /\ placed' = [placed EXCEPT
                     ![j] = IF selected_mesh[j] # None
                            THEN transform(selected_mesh[j])
                            ELSE asset_transform]
    /\ hidden' = IF selected_mesh[j] # None
                 THEN hidden \cup {selected_mesh[j]}
                 ELSE hidden
    /\ UNCHANGED <<objects, abandoned>>
    /\ UNCHANGED <<is_processing, status_message, selected_mesh_base64,
                   task_finished, thread, response, payload, posts, errors,
                   modal_handlers, resets>>
    /\ UNCHANGED captured

(* The timer callback registered at line 252, run once by the host. *)
import_handler(j) ==
    /\ j \in timers
    /\ timers' = timers \ {j}
    /\ imported' = [imported EXCEPT ![j] = Append(@, temp_file[j])]
    /\ temp_file' = [temp_file EXCEPT ![j] = <<>>]
    /\ placed' = [placed EXCEPT
                     ![j] = IF selected_mesh[j] # None /\ texture[j]
                            THEN transform(selected_mesh[j])
                            ELSE asset_transform]
    /\ hidden' = IF selected_mesh[j] # None /\ texture[j]
                 THEN hidden \cup {selected_mesh[j]}
                 ELSE hidden
    /\ UNCHANGED <<objects, abandoned>>
    /\ UNCHANGED <<is_processing, status_message, selected_mesh_base64,
                   task_finished, thread, response, payload, posts, errors,
                   modal_handlers, resets>>
    /\ UNCHANGED captured

(* ---------------------------------------------------------------------- *)
(* Specifications                                                          *)
(* ---------------------------------------------------------------------- *)

(* The operator is invoked by any route (button, operator search, script). *)
Next ==
    \/ \E j \in Jobs, s \in InterleavedSubmissions : invoke(j, s)
    \/ \E j \in Jobs : generate_model(j)
    \/ \E j \in Jobs, event \in Events : modal(j, event)
    \/ \E j \in Jobs : import_handler(j)

Spec == Init /\ [][Next]_vars

(* The operator is invoked only through the panel's button. *)
PanelNext ==
    \/ \E j \in Jobs, s \in InterleavedSubmissions : click(j, s)
    \/ \E j \in Jobs : generate_model(j)
    \/ \E j \in Jobs, event \in Events : modal(j, event)
    \/ \E j \in Jobs : import_handler(j)

PanelSpec == Init /\ [][PanelNext]_vars

(* One invocation, finding any of the property values and selections. *)
SubmitNext ==
    \/ \E s \in Submissions : invoke(1, s)
    \/ generate_model(1)
    \/ \E event \in Events : modal(1, event)
    \/ import_handler(1)

SubmitSpec == Init /\ [][SubmitNext]_vars

(* Every started worker thread keeps being scheduled, and the network call *)
(* returns or raises.                                                      *)
FairSpec == Spec /\ \A j \in Jobs : WF_vars(generate_model(j))

(* ---------------------------------------------------------------------- *)
(* Job states                                                              *)
(* ---------------------------------------------------------------------- *)

(* The worker thread of job j has been started and has not returned. *)
Alive(j) == thread[j] \notin {"none", "rejected", "done"}

(* The worker of job j has executed line 225 or line 258 at least once. *)
TerminalWritten(j) ==
    \/ thread[j] \in {"l227", "l229", "l260", "l261", "done"}
    \/ thread[j] = "l258" /\ response[j] # NoResponse

(* Job j is Running: launched, and no terminal state written yet. *)
Running(j) == Alive(j) /\ ~TerminalWritten(j)

(* Job j is not Idle: launched, and the host poll has not yet reset it. *)
NotIdle(j) == thread[j] \notin {"none", "rejected"} /\ resets[j] = 0

(* The request of job j failed: a non-200 answer or a raised exception. *)
Failed(j) == response[j].status_code = 500 \/ errors[j] > 0

(* Job j got a 200 answer and its worker is past line 252 without raising. *)
Succeeded(j) ==
    /\ response[j].status_code = 200
    /\ errors[j] = 0
    /\ thread[j] \in {"l258", "l260", "l261", "done"}

(* The outcome of job j is recorded: its asset is materialized (written to *)
(* the temporary file or imported), or its error is reported.              *)
OutcomeRecorded(j) ==
    errors[j] > 0 \/ temp_file[j] # <<>> \/ imported[j] # <<>>

(* ---------------------------------------------------------------------- *)
(* Claims                                                                  *)
(* ---------------------------------------------------------------------- *)

(* C1: single-flight. In every reachable state at most one job is Running  *)
(* and at most one started worker thread has not yet returned.             *)
C1_SingleFlight ==
    /\ Cardinality({j \in Jobs : Running(j)}) <= 1
    /\ Cardinality({j \in Jobs : Alive(j)}) <= 1

(* C2: an invocation made while some job is not Idle launches no worker    *)
(* and leaves the busy flag, the status message and every existing job's   *)
(* captured inputs and mesh snapshot unchanged.                            *)
C2_AlreadyRunning ==
    [][\A j \in Jobs :
          ((\E k \in Jobs : NotIdle(k)) /\ thread[j] = "none" /\ thread'[j] # "none")
          => /\ thread'[j] # "start"
             /\ is_processing' = is_processing
             /\ status_message' = status_message
             /\ \A k \in Jobs \ {j} :
                   /\ prompt'[k] = prompt[k]
                   /\ image_path'[k] = image_path[k]
                   /\ texture'[k] = texture[k]
                   /\ selected_mesh'[k] = selected_mesh[k]
                   /\ selected_mesh_base64'[k] = selected_mesh_base64[k]]_vars

(* C3: an invocation with an empty prompt, an empty image path and no      *)
(* selected mesh is rejected on the spot: no worker is launched, no        *)
(* request is sent, and the busy flag and the status message are left as   *)
(* they were.                                                              *)
C3_EmptyRejected ==
    [][\A j \in Jobs, s \in Submissions :
          (s.prompt = "" /\ s.image_path = "" /\ s.selected = None /\ invoke(j, s))
          => /\ thread'[j] = "rejected"
             /\ is_processing' = is_processing
             /\ status_message' = status_message
             /\ posts' = posts
             /\ modal_handlers' = modal_handlers]_vars

(* C3 witness: an empty submission was rejected while an earlier job was   *)
(* in flight with the busy flag set.                                       *)
C3_Witness ==
    \E j, k \in Jobs :
        /\ thread[j] = "rejected"
        /\ prompt[j] = "" /\ image_path[j] = ""
        /\ thread[k] = "post"
        /\ is_processing
        /\ status_message # ""

(* C4: an invocation is rejected exactly when the prompt is empty, the     *)
(* image path is empty and no mesh is selected; with a selected mesh alone *)
(* it is accepted and launches a worker.                                   *)
C4_RejectedIffNoInput ==
    [][\A j \in Jobs, s \in Submissions :
          invoke(j, s)
          => /\ (thread'[j] = "rejected")
                  <=> (s.prompt = "" /\ s.image_path = "" /\ s.selected = None)
             /\ (thread'[j] = "start")
                  <=> ~(s.prompt = "" /\ s.image_path = "" /\ s.selected = None)]_vars

(* C5: every started job eventually has its finished flag written and the  *)
(* busy flag cleared, on every exit path of the worker.                    *)
C5_EventuallyTerminal ==
    \A j \in Jobs :
        (thread[j] = "start")
            ~> (/\ task_finished[j] \/ resets[j] > 0
                /\ ~is_processing)

(* C5 witness: a worker that left through the except clause has returned   *)
(* with the flag written and the busy flag cleared.                        *)
C5_Witness ==
    \E j \in Jobs :
        /\ thread[j] = "done"
        /\ response[j] = NoResponse
        /\ errors[j] > 0
        /\ task_finished[j]
        /\ ~is_processing

(* C6: for each job the host poll takes its terminal-handling branch at    *)
(* most once.                                                              *)
C6_HandledOnce == \A j \in Jobs : resets[j] <= 1

(* C7: whenever the finished flag of a job is set, the job's outcome is    *)
(* already recorded.                                                       *)
C7_FinishedImpliesRecorded ==
    \A j \in Jobs : task_finished[j] => OutcomeRecorded(j)

(* C8: the handoff of a job runs after the worker's terminal-state write   *)
(* and before the host poll resets the job: no handoff is pending or still *)
(* to be registered once the poll has reset the job.                       *)
C8_HandoffBeforeReset ==
    \A j \in Jobs :
        /\ (j \in timers \/ imported[j] # <<>>) => TerminalWritten(j)
        /\ j \in timers => resets[j] = 0

(* C9: a job whose request got a non-200 answer or whose worker raised     *)
(* never has a handoff registered or run; once its worker has returned the *)
(* error is reported and the flag written, and with no other worker alive  *)
(* the busy flag is clear.                                                 *)
C9_NoHandoffOnFailure ==
    \A j \in Jobs :
        Failed(j)
        => /\ j \notin timers
           /\ imported[j] = <<>>
           /\ temp_file[j] = <<>>
           /\ thread[j] = "done"
                => /\ errors[j] > 0
                   /\ task_finished[j] \/ resets[j] > 0
                   /\ (\A k \in Jobs : ~Alive(k)) => ~is_processing

(* C9 witness: a job answered with 500 and a job whose worker raised have  *)
(* both returned.                                                          *)
C9_Witness ==
    \E j, k \in Jobs :
        /\ thread[j] = "done" /\ response[j].status_code = 500
        /\ thread[k] = "done" /\ response[k] = NoResponse /\ errors[k] > 0
        /\ ~is_processing

(* C10: a job answered with 200 and bytes B has exactly one handoff, which *)
(* is pending or has imported exactly B; no handler imports twice or       *)
(* imports other bytes.                                                    *)
C10_OneHandoffOfOwnBytes ==
    \A j \in Jobs :
        /\ Len(imported[j]) <= 1
        /\ \A i \in 1..Len(imported[j]) :
              /\ response[j].status_code = 200
              /\ imported[j][i] = response[j].content
        /\ Succeeded(j)
              => /\ task_finished[j] \/ resets[j] > 0
                 /\ \/ /\ j \in timers
                       /\ imported[j] = <<>>
                       /\ temp_file[j] = response[j].content
                    \/ /\ j \notin timers
                       /\ imported[j] = <<response[j].content>>

(* C10 witness: two jobs submitted one after another have each had their   *)
(* own bytes imported.                                                     *)
C10_Witness ==
    \E j, k \in Jobs :
        /\ j # k
        /\ imported[j] = << <<"asset", j>> >>
        /\ imported[k] = << <<"asset", k>> >>

(* The worker of job j has left the request-building code. *)
Built(j) == thread[j] \notin {"none", "rejected", "start"}

(* Job j captured a source mesh and texturing was requested. *)
MeshReplace(j) == selected_mesh[j] # None /\ texture[j]

(* The image path of job j names an existing file. *)
ImageExists(j) == image_path[j] # "" /\ exists(image_path[j])

(* C11: the request of a job has exactly one of the four field sets, by    *)
(* precedence: mesh, image and the parameters when a mesh is captured,     *)
(* texturing is requested and the image exists; mesh, text and the         *)
(* parameters when a mesh is captured and texturing is requested; image    *)
(* and the parameters when the image exists; text and the parameters       *)
(* otherwise. Exactly one request is built unless building fails.          *)
C11_PayloadShape ==
    \A j \in Jobs :
        /\ Built(j) /\ posts[j] = 0
              => ~MeshReplace(j) /\ image_path[j] # "" /\ ~ImageExists(j)
        /\ Built(j) /\ posts[j] # 0
              => /\ posts[j] = 1
                 /\ payload[j] =
                      (IF MeshReplace(j) /\ ImageExists(j) THEN {"mesh", "image"}
                       ELSE IF MeshReplace(j) THEN {"mesh", "text"}
                       ELSE IF ImageExists(j) THEN {"image"}
                       ELSE {"text"})
                      \cup {"octree_resolution", "num_inference_steps",
                            "guidance_scale", "texture"}
        /\ ~Built(j) => payload[j] = {}

(* C11 witness: a job texturing a selected mesh from an image given by a   *)
(* path relative to the .blend file has sent mesh, image and parameters.   *)
C11_Witness ==
    \E j \in Jobs :
        /\ thread[j] = "done"
        /\ image_path[j] = "/proj/tex.png"
        /\ prompt[j] # ""
        /\ payload[j] = {"mesh", "image", "octree_resolution",
                         "num_inference_steps", "guidance_scale", "texture"}

(* C12: with a non-empty image path naming no file, a job outside the      *)
(* mesh-and-texture branch sends no request, reports the error, ends       *)
(* finished and registers no handoff; a job in the mesh-and-texture branch *)
(* sends mesh, text and the parameters instead.                            *)
C12_MissingImage ==
    \A j \in Jobs :
        (Built(j) /\ image_path[j] # "" /\ ~exists(image_path[j]))
        => IF MeshReplace(j)
           THEN /\ posts[j] = 1
                /\ payload[j] = {"mesh", "text", "octree_resolution",
                                 "num_inference_steps", "guidance_scale",
                                 "texture"}
           ELSE /\ posts[j] = 0
                /\ payload[j] = {}
                /\ response[j] = NoResponse
                /\ errors[j] > 0
                /\ j \notin timers
                /\ imported[j] = <<>>
                /\ thread[j] = "done" => task_finished[j] \/ resets[j] > 0

(* C12 witness: a plain image job with a missing file has returned, and    *)
(* its flag was set.                                                       *)
C12_Witness ==
    \E j \in Jobs :
        /\ thread[j] = "done"
        /\ image_path[j] = "/img/missing.png"
        /\ ~MeshReplace(j)
        /\ task_finished[j]
        /\ ~is_processing

C14_OnlyHostResets ==
    [][/\ \A j \in Jobs :
             generate_model(j)
             => is_processing' = is_processing /\ UNCHANGED host_only
       /\ (is_processing /\ ~is_processing')
             => \E j \in modal_handlers :
                   task_finished[j] /\ ~task_finished'[j]]_vars

(* C15, as claimed: an invocation whose image path names no file launches  *)
(* no worker and leaves the busy flag as it was.                           *)
C15_MissingImageRejected ==
    [][\A j \in Jobs, s \in Submissions :
          (invoke(j, s) /\ s.image_path # "" /\ ~exists(ResolvedPath(s.image_path)))
          => /\ thread'[j] # "start"
             /\ is_processing' = is_processing
             /\ modal_handlers' = modal_handlers]_vars

(* C15, amended: an invocation whose image path names no file is accepted: *)
(* the busy flag is set, the worker is launched and the operator becomes a *)
(* modal handler, with no error reported by invoke; errors are reported    *)
(* only by steps of a launched worker.                                     *)
C15_MissingImageAccepted ==
    [][/\ \A j \in Jobs, s \in Submissions :
             (invoke(j, s) /\ s.image_path # "" /\ ~exists(ResolvedPath(s.image_path)))
             => /\ thread'[j] = "start"
                /\ is_processing'
                /\ j \in modal_handlers'
                /\ errors' = errors
       /\ \A j \in Jobs :
             errors'[j] # errors[j] => Alive(j) /\ thread'[j] = "l258"]_vars

(* C15 witness: a plain image job with a missing file has been accepted    *)
(* and its worker is about to build the request, the busy flag set.        *)
C15_Witness ==
    \E j \in Jobs :
        /\ thread[j] = "start"
        /\ image_path[j] = "/img/missing.png"
        /\ ~MeshReplace(j)
        /\ is_processing
        /\ j \in modal_handlers

(* C16: the finished flag of a job is never set while its mesh snapshot is *)
(* still held, and the snapshot is empty once the worker has returned.     *)
C16_FlagAndSnapshotTogether ==
    \A j \in Jobs :
        /\ task_finished[j] => selected_mesh_base64[j] = <<>>
        /\ thread[j] = "done" => selected_mesh_base64[j] = <<>>

(* C17: a job cancelled while its request was in flight is never reset by  *)
(* the host and has no handoff performed for it, and at most one such      *)
(* request is outstanding.                                                 *)
C17_AbandonedNeverCollected ==
    /\ \A j \in abandoned :
          /\ j \notin modal_handlers
          /\ resets[j] = 0
          /\ imported[j] = <<>>
    /\ Cardinality({j \in abandoned : thread[j] \in {"start", "post"}}) <= 1

(* C18: a job issues at most one POST, none before its worker builds the   *)
(* request, and the count does not grow after the request was answered or  *)
(* failed.                                                                 *)
C18_OneAttempt ==
    \A j \in Jobs :
        /\ posts[j] <= 1
        /\ ~Built(j) => posts[j] = 0
        /\ (response[j] # NoResponse \/ thread[j] = "post") => posts[j] = 1

(* C18 witness: a job answered with 500 has returned after one POST. *)
C18_Witness ==
    \E j \in Jobs :
        /\ thread[j] = "done"
        /\ response[j].status_code = 500
        /\ posts[j] = 1

(* C19: the status message changes only in a step in which an invocation   *)
(* is accepted, and then to the text for that invocation's inputs:         *)
(* texturing the selected mesh, or generating a textured or white mesh     *)
(* from the text prompt or, without a prompt, from the image.              *)
C19_StatusFixedAtSubmission ==
    [][/\ \A j \in Jobs :
             (thread[j] = "none" /\ thread'[j] = "start")
             => status_message' =
                  (IF selected_mesh'[j] # None /\ texture'[j]
                     THEN "Texturing Selected Mesh..."
                   ELSE IF texture'[j] /\ prompt'[j] # ""
                     THEN "Generating Textured Mesh with Text Prompt..."
                   ELSE IF texture'[j]
                     THEN "Generating Textured Mesh with Image..."
                   ELSE IF prompt'[j] # ""
                     THEN "Generating White Mesh with Text Prompt..."
                   ELSE "Generating White Mesh with Image...")
       /\ status_message' # status_message
             => \E j \in Jobs : thread[j] = "none" /\ thread'[j] = "start"]_vars

(* C19 witness: an image job has been polled and its asset imported, the   *)
(* message still the one written at submission.                            *)
C19_Witness ==
    \E j \in Jobs :
        /\ thread[j] = "done"
        /\ resets[j] > 0
        /\ imported[j] # <<>>
        /\ status_message = "Generating Textured Mesh with Image..."

(* C20: with submissions made only through the gated button, the busy flag *)
(* is set whenever some worker is blocked in its network call.             *)
C20_BusyWhileInFlight ==
    \A j \in Jobs : thread[j] = "post" => is_processing

====
